---- MODULE Spec2Model ----
(***************************************************************************)
(* The two commands of src-tauri/src/lib.rs, read_files_in_directory and   *)
(* rename_files, over a small hierarchical filesystem.                     *)
(*                                                                         *)
(* A string is a sequence of one-character strings; a file name is such a  *)
(* string; a filesystem location is a sequence of file names from the      *)
(* root; a PathBuf is [abs, comps].                                        *)
(***************************************************************************)
EXTENDS Naturals, Integers, Sequences, FiniteSets, TLC

VARIABLES
    fs,        \* the filesystem: location -> node
    pc,        \* "idle" | "renaming" | "rdone" | "listing" | "ldone"
    files,     \* rename_files: the argument
    index,     \* rename_files: number of loop iterations completed
    rresult,   \* rename_files: the returned Result
    trace,     \* history: the validations and fs::rename calls made, in order
    fs0,       \* history: the filesystem when the current command was called
    fsPrev,    \* history: the filesystem before the latest loop iteration
    lpath,     \* read_files_in_directory: the argument
    pending,   \* read_files_in_directory: children read_dir has yet to yield
    entries,   \* read_files_in_directory: the local Vec<FileEntry>
    lresult,   \* read_files_in_directory: the returned Result
    lfault,    \* history: the fallible call that failed in this listing
    prev       \* history: the previous completed listing

vars == <<fs, pc, files, index, rresult, trace, fs0, fsPrev,
          lpath, pending, entries, lresult, lfault, prev>>

renameVars == <<files, index, rresult, trace, fsPrev>>
listVars == <<lpath, pending, entries, lresult, lfault, prev>>

------------------------------------------------------------------------------
(* Bounds *)

MaxBatch == 2

------------------------------------------------------------------------------
(* Strings *)

IsWhitespace(c) == c \in {" ", "\t"}

RECURSIVE TrimStart(_)
TrimStart(s) ==
    IF s # <<>> /\ IsWhitespace(Head(s)) THEN TrimStart(Tail(s)) ELSE s

RECURSIVE TrimEnd(_)
TrimEnd(s) ==
    IF s # <<>> /\ IsWhitespace(s[Len(s)])
    THEN TrimEnd(SubSeq(s, 1, Len(s) - 1))
    ELSE s

\* str::trim
Trim(s) == TrimEnd(TrimStart(s))

\* OsStr::to_string_lossy: a byte that is no valid UTF-8 becomes U+FFFD
ToStringLossy(s) ==
    [i \in DOMAIN s |-> IF s[i] = "xFF" THEN "uFFFD" ELSE s[i]]

------------------------------------------------------------------------------
(* Paths *)

DotDot == <<".", ".">>
Dot == <<".">>

None == [some |-> FALSE, v |-> <<>>]
Some(x) == [some |-> TRUE, v |-> x]

\* The components of a path string: split at separators; empty components and
\* "." are dropped, ".." is kept.
RECURSIVE SplitFrom(_, _, _)
SplitFrom(s, i, cur) ==
    LET flush == IF cur = <<>> \/ cur = Dot THEN <<>> ELSE <<cur>>
    IN  IF i > Len(s) THEN flush
        ELSE IF s[i] = "/" THEN flush \o SplitFrom(s, i + 1, <<>>)
        ELSE SplitFrom(s, i + 1, Append(cur, s[i]))

Components(s) == SplitFrom(s, 1, <<>>)

IsAbsolute(s) == s # <<>> /\ s[1] = "/"

\* Path::file_name: the final component, unless the path ends in ".." or has
\* no component
FileName(p) ==
    IF p.comps = <<>> \/ p.comps[Len(p.comps)] = DotDot
    THEN None
    ELSE Some(p.comps[Len(p.comps)])

\* PathBuf::pop
Pop(p) ==
    IF p.comps = <<>> THEN p
    ELSE [abs |-> p.abs, comps |-> SubSeq(p.comps, 1, Len(p.comps) - 1)]

\* PathBuf::push: an absolute argument replaces the path
Push(p, s) ==
    IF IsAbsolute(s) THEN [abs |-> TRUE, comps |-> Components(s)]
    ELSE [abs |-> p.abs, comps |-> p.comps \o Components(s)]

\* Path::with_file_name
WithFileName(p, s) ==
    IF FileName(p).some THEN Push(Pop(p), s) ELSE Push(p, s)

\* DirEntry::path: the directory's path joined with the entry's raw name
EntryPath(dir, fname) == [abs |-> dir.abs, comps |-> Append(dir.comps, fname)]

------------------------------------------------------------------------------
(* The filesystem *)

DirNode == [kind |-> "dir", ino |-> 0, mtime |-> 0]
FileNode(i, t) == [kind |-> "file", ino |-> i, mtime |-> t]
LinkNode(i) == [kind |-> "symlink", ino |-> i, mtime |-> 0]
FifoNode(i) == [kind |-> "fifo", ino |-> i, mtime |-> 0]

Exists(f, loc) == loc \in DOMAIN f

IsPrefix(a, b) == Len(a) <= Len(b) /\ SubSeq(b, 1, Len(a)) = a

\* The names of the immediate children of the directory at loc
Children(f, loc) ==
    {q[Len(q)] : q \in {r \in DOMAIN f : Len(r) = Len(loc) + 1 /\ IsPrefix(loc, r)}}

\* Walk comps from the directory at loc; every component walked through is
\* an existing directory (the symlinks of the model dangle).
RECURSIVE WalkDir(_, _, _)
WalkDir(f, loc, comps) ==
    IF ~Exists(f, loc) THEN [err |-> "ENOENT", loc |-> loc]
    ELSE IF f[loc].kind = "symlink" THEN [err |-> "ENOENT", loc |-> loc]
    ELSE IF f[loc].kind # "dir" THEN [err |-> "ENOTDIR", loc |-> loc]
    ELSE IF comps = <<>> THEN [err |-> "", loc |-> loc]
    ELSE IF Head(comps) = DotDot
         THEN WalkDir(f, IF loc = <<>> THEN loc ELSE SubSeq(loc, 1, Len(loc) - 1),
                      Tail(comps))
         ELSE WalkDir(f, Append(loc, Head(comps)), Tail(comps))

Failed(f, e) == [err |-> e, fs |-> f]

\* The entries at or below src move to dst; what was at dst is replaced.
MoveTree(f, src, dst) ==
    LET moved == {q \in DOMAIN f : IsPrefix(src, q)}
        kept == {q \in DOMAIN f : ~IsPrefix(src, q) /\ ~IsPrefix(dst, q)}
        Rebase(q) == dst \o SubSeq(q, Len(src) + 1, Len(q))
        Origin(r) == CHOOSE q \in moved : Rebase(q) = r
    IN  [r \in kept \cup {Rebase(q) : q \in moved} |->
            IF r \in kept THEN f[r] ELSE f[Origin(r)]]

\* rename(2) as the OS decides it when nothing else interferes: a missing
\* source fails, an existing destination is replaced, a file does not replace
\* a directory, and renaming onto the same entry or onto another hard link of
\* the same file does nothing and succeeds
RenameEffect(f, old, new) ==
    IF old.comps = <<>> \/ new.comps = <<>> THEN Failed(f, "EBUSY")
    ELSE
    LET od == WalkDir(f, <<>>, SubSeq(old.comps, 1, Len(old.comps) - 1))
        nd == WalkDir(f, <<>>, SubSeq(new.comps, 1, Len(new.comps) - 1))
        ol == old.comps[Len(old.comps)]
        nl == new.comps[Len(new.comps)]
        src == Append(od.loc, ol)
        dst == Append(nd.loc, nl)
    IN  IF od.err # "" THEN Failed(f, od.err)
        ELSE IF nd.err # "" THEN Failed(f, nd.err)
        ELSE IF ol = DotDot \/ nl = DotDot THEN Failed(f, "EBUSY")
        ELSE IF ~Exists(f, src) THEN Failed(f, "ENOENT")
        ELSE IF src # dst /\ IsPrefix(src, dst) THEN Failed(f, "EINVAL")
        ELSE IF src # dst /\ IsPrefix(dst, src) THEN Failed(f, "ENOTEMPTY")
        ELSE IF src = dst THEN [err |-> "", fs |-> f]
        ELSE IF ~Exists(f, dst) THEN [err |-> "", fs |-> MoveTree(f, src, dst)]
        ELSE IF f[src].kind # "dir" /\ f[dst].kind # "dir" /\ f[src].ino = f[dst].ino
             THEN [err |-> "", fs |-> f]
        ELSE IF f[src].kind = "dir" /\ f[dst].kind # "dir" THEN Failed(f, "ENOTDIR")
        ELSE IF f[src].kind # "dir" /\ f[dst].kind = "dir" THEN Failed(f, "EISDIR")
        ELSE IF f[dst].kind = "dir" /\ Children(f, dst) # {} THEN Failed(f, "ENOTEMPTY")
        ELSE [err |-> "", fs |-> MoveTree(f, src, dst)]

\* fs::rename: what the OS decides, or a failure of its own (permissions,
\* I/O) that leaves the filesystem as it was
FsRename(f, old, new) == {RenameEffect(f, old, new), Failed(f, "EACCES")}

\* io::Error's Display
ErrorText(e) ==
    CASE e = "ENOENT" -> "No such file or directory (os error 2)"
      [] e = "EACCES" -> "Permission denied (os error 13)"
      [] e = "EBUSY" -> "Device or resource busy (os error 16)"
      [] e = "ENOTDIR" -> "Not a directory (os error 20)"
      [] e = "EISDIR" -> "Is a directory (os error 21)"
      [] e = "EINVAL" -> "Invalid argument (os error 22)"
      [] e = "ENOTEMPTY" -> "Directory not empty (os error 39)"
      [] e = "EIO" -> "Input/output error (os error 5)"
      [] e = "ENOTSUP" -> "operation not supported on this platform"

------------------------------------------------------------------------------
(* The fixture *)

D == <<"d">>
S == <<"s">>
NameA == <<"a">>
NameB == <<"b">>
NameC == <<"c">>
NameL == <<"l">>
NameP == <<"p">>
NameZ == <<"z">>
NameBad == <<"xFF">>

\* /d holds the regular files a and b, c (a second hard link to a's inode),
\* a file whose name is no valid UTF-8, the empty directory s, a dangling
\* symlink l and a fifo p.
InitFs ==
    (<<>> :> DirNode) @@ (<<D>> :> DirNode) @@ (<<D, S>> :> DirNode)
    @@ (<<D, NameA>> :> FileNode(1, 10)) @@ (<<D, NameB>> :> FileNode(2, 20))
    @@ (<<D, NameC>> :> FileNode(1, 10)) @@ (<<D, NameBad>> :> FileNode(3, 30))
    @@ (<<D, NameL>> :> LinkNode(4)) @@ (<<D, NameP>> :> FifoNode(5))

AbsPath(comps) == [abs |-> TRUE, comps |-> comps]
NoPath == [abs |-> FALSE, comps |-> <<>>]

\* The inputs of rename_files
ReqPaths == {AbsPath(<<D, NameA>>), AbsPath(<<D, NameB>>), AbsPath(<<D, S, DotDot>>)}
ReqNames == {NameA, NameZ}
NewNames ==
    { <<>>, <<" ">>, NameB, NameC, <<" ", "c">>, <<"s", "/", "c">>, DotDot }

\* RenameFileEntry (modified plays no part in rename_files)
Requests == [name : ReqNames, path : ReqPaths, new_name : NewNames]

RECURSIVE SeqsUpTo(_, _)
SeqsUpTo(T, n) ==
    IF n = 0 THEN {<<>>}
    ELSE LET shorter == SeqsUpTo(T, n - 1)
         IN  shorter \cup {Append(q, x) : q \in {r \in shorter : Len(r) = n - 1}, x \in T}

Batches == SeqsUpTo(Requests, MaxBatch)

------------------------------------------------------------------------------
(* rename_files *)

NoMsg == [text |-> "", name |-> <<>>, new_name |-> <<>>, os |-> ""]
Ok == [ok |-> TRUE, msg |-> NoMsg]
Err(m) == [ok |-> FALSE, msg |-> m]

Continue == [ret |-> FALSE, result |-> Ok]
Return(r) == [ret |-> TRUE, result |-> r]

\* Variant: the emptiness test on the name as supplied
IsEmptyNameUntrimmed(file) == file.new_name = <<>>

\* file.new_name.trim().is_empty()
IsEmptyName(file) == Trim(file.new_name) = <<>>

\* format!("New name is empty for file: {}", file.name)
EmptyNameMsg(file) ==
    [text |-> "New name is empty for file: {}", name |-> file.name,
     new_name |-> <<>>, os |-> ""]

\* Variant: an empty name is skipped
OnEmptyNameSkip(file) == Continue

\* the body of `if file.new_name.trim().is_empty()`
OnEmptyName(file) == Return(Err(EmptyNameMsg(file)))

\* Variant: the destination is built from file.name
NewPathFromName(file) == WithFileName(file.path, file.name)

\* Variant: the new name is joined to the path, keeping its final component
NewPathJoined(file) == Push(file.path, file.new_name)

\* Variant: the destination is built from the trimmed name
NewPathTrimmed(file) == WithFileName(file.path, Trim(file.new_name))

\* file.path.with_file_name(&file.new_name)
NewPath(file) == WithFileName(file.path, file.new_name)

\* Variant: the message leaves the OS error out
RenameFailedMsgNoCause(file, e) ==
    [text |-> "Failed to rename '{}' to '{}': {}", name |-> file.name,
     new_name |-> file.new_name, os |-> ""]

\* format!("Failed to rename '{}' to '{}': {}", file.name, file.new_name, e)
RenameFailedMsg(file, e) ==
    [text |-> "Failed to rename '{}' to '{}': {}", name |-> file.name,
     new_name |-> file.new_name, os |-> ErrorText(e)]

\* Variant: a failed rename is logged and the loop goes on
OnRenamedKeepGoing(file, r) == Continue

\* match fs::rename(&file.path, &new_path)
OnRenamed(file, r) ==
    IF r.err = "" THEN Continue ELSE Return(Err(RenameFailedMsg(file, r.err)))

Validated(i, outcome) ==
    [op |-> "validate", idx |-> i, from |-> NoPath, to |-> NoPath, err |-> outcome]
Renamed(i, from, to, e) ==
    [op |-> "rename", idx |-> i, from |-> from, to |-> to, err |-> e]

RenameCall ==
    /\ pc = "idle"
    /\ \E batch \in Batches : files' = batch
    /\ index' = 0
    /\ rresult' = Ok
    /\ trace' = <<>>
    /\ fs0' = fs
    /\ fsPrev' = fs
    /\ pc' = "renaming"
    /\ UNCHANGED <<fs, listVars>>

\* One iteration of `for (index, file) in files.iter().enumerate()`
RenameStep ==
    /\ pc = "renaming"
    /\ index < Len(files)
    /\ LET file == files[index + 1]
       IN  IF IsEmptyName(file)
           THEN LET o == OnEmptyName(file)
                IN  /\ trace' = Append(trace, Validated(index, "empty"))
                    /\ fs' = fs
                    /\ rresult' = o.result
                    /\ pc' = IF o.ret THEN "rdone" ELSE pc
                    /\ index' = IF o.ret THEN index ELSE index + 1
           ELSE \E r \in FsRename(fs, file.path, NewPath(file)) :
                LET o == OnRenamed(file, r)
                IN  /\ trace' = trace \o <<Validated(index, ""),
                                            Renamed(index, file.path, NewPath(file), r.err)>>
                    /\ fs' = r.fs
                    /\ rresult' = o.result
                    /\ pc' = IF o.ret THEN "rdone" ELSE pc
                    /\ index' = IF o.ret THEN index ELSE index + 1
    /\ fsPrev' = fs
    /\ UNCHANGED <<files, fs0, listVars>>

\* The loop is exhausted: Ok(())
RenameReturn ==
    /\ pc = "renaming"
    /\ index = Len(files)
    /\ rresult' = Ok
    /\ pc' = "rdone"
    /\ UNCHANGED <<fs, files, index, trace, fs0, fsPrev, listVars>>

------------------------------------------------------------------------------
(* read_files_in_directory *)

\* The inputs of read_files_in_directory: /d, its empty subdirectory, a path
\* that does not exist and a path to a regular file
ListPaths ==
    {AbsPath(<<D>>), AbsPath(<<D, S>>), AbsPath(<<D, <<"m">>>>), AbsPath(<<D, NameA>>)}

NoListing == [ok |-> FALSE, entries |-> <<>>, err |-> ""]
ListOk(ents) == [ok |-> TRUE, entries |-> ents, err |-> ""]
ListErr(e) == [ok |-> FALSE, entries |-> <<>>, err |-> ErrorText(e)]

NextEntry(ents) == [ret |-> FALSE, entries |-> ents, result |-> NoListing]
ReturnList(r) == [ret |-> TRUE, entries |-> <<>>, result |-> r]

\* fs::read_dir: the directory the path denotes, or an error
ReadDir(f, path) == {WalkDir(f, <<>>, path.comps), [err |-> "EACCES", loc |-> <<>>]}

\* Variant: a failure ends the loop and what was read is returned
PropagateAsPartial(ents, e) == ReturnList(ListOk(ents))

\* `.map_err(|e| e.to_string())?`: the function returns Err at once
Propagate(ents, e) == ReturnList(ListErr(e))

\* Variant: everything but a directory is taken for a file
IsFileNotDir(kind) == kind # "dir"

\* FileType::is_file
IsFile(kind) == kind = "file"

\* FileEntry { name, path, modified, new_name: None }
MakeEntry(dir, fname, node) ==
    [name |-> ToStringLossy(fname), path |-> EntryPath(dir, fname),
     modified |-> node.mtime, new_name |-> None]

\* Variant: the first entry that is no regular file ends the loop
OnOtherStop(ents) == ReturnList(ListOk(ents))

\* An entry that is no regular file: on to the next one
OnOther(ents) == NextEntry(ents)

\* The calls that can fail for a child: reading the entry and its type, and
\* for a regular file its metadata and its modification time
FaultsFor(node) ==
    {"", "entry", "file_type"}
        \cup (IF node.kind = "file" THEN {"metadata", "modified"} ELSE {})

\* The body of `for entry_result in fs::read_dir(path)?`
ListBody(ents, dir, fname, node, fault) ==
    IF fault = "entry" THEN Propagate(ents, "EIO")
    ELSE IF fault = "file_type" THEN Propagate(ents, "EIO")
    ELSE IF IsFile(node.kind)
         THEN IF fault = "metadata" THEN Propagate(ents, "EACCES")
              ELSE IF fault = "modified" THEN Propagate(ents, "ENOTSUP")
              ELSE NextEntry(Append(ents, MakeEntry(dir, fname, node)))
    ELSE OnOther(ents)

\* What a directory holds: its children and their nodes
DirView(f, path) ==
    LET d == WalkDir(f, <<>>, path.comps)
    IN  IF d.err # "" THEN {}
        ELSE {<<n, f[Append(d.loc, n)]>> : n \in Children(f, d.loc)}

ListCall ==
    /\ pc \in {"idle", "ldone"}
    /\ \E path \in ListPaths :
          \E d \in ReadDir(fs, path) :
              /\ lpath' = path
              /\ IF d.err = ""
                 THEN /\ pending' = Children(fs, d.loc)
                      /\ lresult' = NoListing
                      /\ lfault' = ""
                      /\ pc' = "listing"
                 ELSE /\ pending' = {}
                      /\ lresult' = Propagate(<<>>, d.err).result
                      /\ lfault' = "read_dir"
                      /\ pc' = "ldone"
    /\ entries' = <<>>
    /\ prev' = IF pc = "ldone"
               THEN [path |-> lpath, view |-> DirView(fs0, lpath),
                     ok |-> lresult.ok, entries |-> lresult.entries]
               ELSE prev
    /\ fs0' = fs
    /\ UNCHANGED <<fs, renameVars>>

\* One iteration: read_dir yields a child, in any order
ListStep ==
    /\ pc = "listing"
    /\ pending # {}
    /\ \E fname \in pending :
          LET node == fs[Append(WalkDir(fs, <<>>, lpath.comps).loc, fname)]
          IN  \E fault \in FaultsFor(node) :
                  LET o == ListBody(entries, lpath, fname, node, fault)
                  IN  /\ pending' = pending \ {fname}
                      /\ entries' = o.entries
                      /\ lresult' = o.result
                      /\ lfault' = fault
                      /\ pc' = IF o.ret THEN "ldone" ELSE pc
    /\ UNCHANGED <<fs, fs0, lpath, prev, renameVars>>

\* read_dir is exhausted: Ok(entries)
ListReturn ==
    /\ pc = "listing"
    /\ pending = {}
    /\ lresult' = ListOk(entries)
    /\ entries' = <<>>
    /\ pc' = "ldone"
    /\ UNCHANGED <<fs, fs0, lpath, pending, lfault, prev, renameVars>>

\* Between two calls another process removes /d/b, or puts it back
EnvChange ==
    /\ pc \in {"idle", "ldone"}
    /\ fs' = IF Exists(fs, <<D, NameB>>)
             THEN [q \in DOMAIN fs \ {<<D, NameB>>} |-> fs[q]]
             ELSE fs @@ (<<D, NameB>> :> InitFs[<<D, NameB>>])
    /\ UNCHANGED <<pc, fs0, renameVars, listVars>>

------------------------------------------------------------------------------
(* Specifications *)

NoPrev == [path |-> NoPath, view |-> {}, ok |-> FALSE, entries |-> <<>>]

Init ==
    /\ fs = InitFs
    /\ pc = "idle"
    /\ files = <<>>
    /\ index = 0
    /\ rresult = Ok
    /\ trace = <<>>
    /\ fs0 = InitFs
    /\ fsPrev = InitFs
    /\ lpath = NoPath
    /\ pending = {}
    /\ entries = <<>>
    /\ lresult = NoListing
    /\ lfault = ""
    /\ prev = NoPrev

Next == RenameCall \/ RenameStep \/ RenameReturn

Spec == Init /\ [][Next]_vars

NextList == ListCall \/ ListStep \/ ListReturn \/ EnvChange

SpecList == Init /\ [][NextList]_vars

------------------------------------------------------------------------------
(* Vocabulary of the properties *)

\* A name that is empty or made of whitespace only
IsBlank(s) == \A i \in DOMAIN s : s[i] \in {" ", "\t"}

\* A single ordinary path component: no separator, not ".", not ".."
IsPlainName(s) == s # <<>> /\ s # Dot /\ s # DotDot /\ \A i \in DOMAIN s : s[i] # "/"

HasSeparator(s) == \E i \in DOMAIN s : s[i] = "/"

ParentOf(p) == [abs |-> p.abs, comps |-> SubSeq(p.comps, 1, Len(p.comps) - 1)]

LastOf(p) == p.comps[Len(p.comps)]

\* The parent directory of the original path joined with the new name
Destination(file) ==
    [abs |-> file.path.abs, comps |-> ParentOf(file.path).comps \o Components(file.new_name)]

\* The directory entry a path denotes in f: [ok, loc]
Locate(f, p) ==
    IF p.comps = <<>> THEN [ok |-> TRUE, loc |-> <<>>]
    ELSE LET d == WalkDir(f, <<>>, ParentOf(p).comps)
         IN  IF d.err # "" THEN [ok |-> FALSE, loc |-> <<>>]
             ELSE IF LastOf(p) = DotDot
                  THEN [ok |-> TRUE,
                        loc |-> IF d.loc = <<>> THEN <<>> ELSE SubSeq(d.loc, 1, Len(d.loc) - 1)]
                  ELSE [ok |-> TRUE, loc |-> Append(d.loc, LastOf(p))]

PathExists(f, p) == Locate(f, p).ok /\ Exists(f, Locate(f, p).loc)

\* A file's content stays with its inode
ContentAt(f, p) == f[Locate(f, p).loc].ino

RenameEvents == SelectSeq(trace, LAMBDA e : e.op = "rename")

EventsOf(i) == {j \in DOMAIN trace : trace[j].idx = i}

RenamesOf(i) == {j \in DOMAIN trace : trace[j].op = "rename" /\ trace[j].idx = i}

\* Request i (0-based) fails: blank new name, or fs::rename returned an error
FailsAt(i) ==
    \/ IsBlank(files[i + 1].new_name)
    \/ \E j \in RenamesOf(i) : trace[j].err # ""

\* The filesystem after the successful renames of evs, in order
RECURSIVE Replay(_, _)
Replay(f, evs) ==
    IF evs = <<>> THEN f
    ELSE LET e == evs[Len(evs)]
             before == Replay(f, SubSeq(evs, 1, Len(evs) - 1))
         IN  IF e.err = "" THEN RenameEffect(before, e.from, e.to).fs ELSE before

DistinctPaths == \A i, j \in DOMAIN files : i # j => files[i].path # files[j].path

------------------------------------------------------------------------------
(* C1: when request k is the first of the batch to fail (blank new name, or *)
(* fs::rename returns an error) the call returns Err, fs::rename has been   *)
(* called and has succeeded for exactly requests 0..k-1 in input order,     *)
(* those renames are still in effect, and nothing was validated or renamed  *)
(* after request k.                                                         *)
C1_StopOnFirstFailure ==
    pc = "rdone" =>
        \A k \in 0..(Len(files) - 1) :
            (FailsAt(k) /\ \A j \in 0..(k - 1) : ~FailsAt(j)) =>
                /\ ~rresult.ok
                /\ \A i \in 0..(k - 1) :
                      /\ Cardinality(RenamesOf(i)) = 1
                      /\ \A j \in RenamesOf(i) :
                            trace[j].err = "" /\ trace[j].from = files[i + 1].path
                /\ \A a, b \in DOMAIN trace : a < b => trace[a].idx <= trace[b].idx
                /\ \A j \in DOMAIN trace : trace[j].idx <= k
                /\ \A j \in RenamesOf(k) : trace[j].err # ""
                /\ fs = Replay(fs0, RenameEvents)

C1_Witness ==
    /\ pc = "rdone"
    /\ Len(files) = 2
    /\ FailsAt(1)
    /\ ~FailsAt(0)
    /\ fs # fs0

(* C2: Ok is returned only if every request of the batch passed the blank   *)
(* name validation and had fs::rename called for it exactly once, with      *)
(* success; for the empty batch Ok is returned and nothing is renamed.      *)
C2_OkOnlyIfAllApplied ==
    (pc = "rdone" /\ rresult.ok) =>
        /\ \A i \in 0..(Len(files) - 1) :
              /\ ~IsBlank(files[i + 1].new_name)
              /\ Cardinality(RenamesOf(i)) = 1
              /\ \A j \in RenamesOf(i) : trace[j].err = ""
        /\ Len(RenameEvents) = Len(files)
        /\ files = <<>> => (fs = fs0 /\ trace = <<>>)

C2_Witness == pc = "rdone" /\ rresult.ok /\ Len(files) = 2 /\ fs # fs0

(* C3: a request that is reached and whose new name is blank makes the call *)
(* return an error that carries the request's name field; fs::rename is not *)
(* called for it and the filesystem is as the preceding requests left it.   *)
C3_EmptyNameRejected ==
    \A i \in 0..(Len(files) - 1) :
        (IsBlank(files[i + 1].new_name) /\ EventsOf(i) # {}) =>
            /\ pc = "rdone"
            /\ index = i
            /\ ~rresult.ok
            /\ rresult.msg.text = "New name is empty for file: {}"
            /\ rresult.msg.name = files[i + 1].name
            /\ RenamesOf(i) = {}
            /\ fs = fsPrev
            /\ fs = Replay(fs0, RenameEvents)

C3_Witness ==
    /\ pc = "rdone"
    /\ Len(files) = 2
    /\ files[2].new_name = <<" ">>
    /\ EventsOf(1) # {}
    /\ fs # fs0

RenamedInPlace(file) ==
    /\ ~PathExists(fs, file.path)
    /\ PathExists(fs, Destination(file))
    /\ ContentAt(fs, Destination(file)) = ContentAt(fs0, file.path)

(* C4 as claimed: on Ok for a batch with pairwise distinct original paths,  *)
(* every original path is gone and every destination exists with the       *)
(* content its original had before the call.                                *)
C4_Original ==
    (pc = "rdone" /\ rresult.ok /\ DistinctPaths) =>
        \A i \in DOMAIN files : RenamedInPlace(files[i])

\* No destination denotes an original path of the batch or another request's
\* destination, and none is already a hard link to the file it would replace.
NoCollision ==
    /\ \A i, j \in DOMAIN files :
          Locate(fs0, Destination(files[i])).loc # Locate(fs0, files[j].path).loc
    /\ \A i, j \in DOMAIN files :
          i # j => Locate(fs0, Destination(files[i])).loc
                     # Locate(fs0, Destination(files[j])).loc
    /\ \A i \in DOMAIN files :
          (PathExists(fs0, Destination(files[i])) /\ PathExists(fs0, files[i].path))
              => ContentAt(fs0, Destination(files[i])) # ContentAt(fs0, files[i].path)

(* C4 amended: the same, for batches in which no destination is an original *)
(* path of the batch, no two requests share a destination and no            *)
(* destination is already a hard link to the file renamed onto it.          *)
C4_RenameSuccess ==
    (pc = "rdone" /\ rresult.ok /\ DistinctPaths /\ NoCollision) =>
        \A i \in DOMAIN files : RenamedInPlace(files[i])

C4_Witness ==
    /\ pc = "rdone"
    /\ rresult.ok
    /\ Len(files) = 2
    /\ DistinctPaths
    /\ NoCollision

SameDirectory(e) ==
    /\ Len(e.to.comps) = Len(e.from.comps)
    /\ ParentOf(e.to) = ParentOf(e.from)

(* C5 as claimed: every destination handed to fs::rename has the parent     *)
(* directory of the request's original path and differs from it only in the *)
(* final component.                                                         *)
C5_Original ==
    \A j \in DOMAIN trace : trace[j].op = "rename" => SameDirectory(trace[j])

(* C5 amended: the destination has the parent directory of the original     *)
(* path whenever the original path ends in a file name and the new name is  *)
(* a single ordinary path component (no separator, neither "." nor "..").   *)
C5_SameDirectory ==
    \A j \in DOMAIN trace :
        (/\ trace[j].op = "rename"
         /\ trace[j].from = files[trace[j].idx + 1].path
         /\ FileName(trace[j].from).some
         /\ IsPlainName(files[trace[j].idx + 1].new_name))
            => SameDirectory(trace[j])

C5_Witness ==
    \E j \in DOMAIN trace :
        /\ trace[j].op = "rename"
        /\ trace[j].err = ""
        /\ IsPlainName(files[trace[j].idx + 1].new_name)
        /\ FileName(trace[j].from).some
        /\ fs # fs0

(* C6: a failed fs::rename ends the call at once with an error that carries *)
(* the request's name, its new name and the text of the OS error, and the   *)
(* failed request leaves the filesystem as it was.                          *)
C6_RenameFailureReported ==
    \A j \in DOMAIN trace :
        (trace[j].op = "rename" /\ trace[j].err # "") =>
            /\ j = Len(trace)
            /\ pc = "rdone"
            /\ index = trace[j].idx
            /\ ~rresult.ok
            /\ rresult.msg.text = "Failed to rename '{}' to '{}': {}"
            /\ rresult.msg.name = files[index + 1].name
            /\ rresult.msg.new_name = files[index + 1].new_name
            /\ rresult.msg.os = ErrorText(trace[j].err)
            /\ fs = fsPrev

C6_Witness ==
    /\ pc = "rdone"
    /\ Len(files) = 2
    /\ \E j \in RenamesOf(1) : trace[j].err = "ENOENT"
    /\ fs # fs0

ValidatedOnTrimmed ==
    \A j \in DOMAIN trace :
        trace[j].op = "validate" =>
            (trace[j].err = "empty" <=> IsBlank(files[trace[j].idx + 1].new_name))

(* C10 as claimed: a request is rejected exactly when its trimmed new name  *)
(* is empty, and the final component of every destination is the new name   *)
(* as supplied.                                                             *)
C10_Original ==
    /\ ValidatedOnTrimmed
    /\ \A j \in DOMAIN trace :
          trace[j].op = "rename" =>
              (/\ trace[j].to.comps # <<>>
               /\ LastOf(trace[j].to) = files[trace[j].idx + 1].new_name)

(* C10 amended: the same, for new names that are a single path component   *)
(* (no path separator, not "."): whitespace around such a name is kept in   *)
(* the destination.                                                         *)
C10_UntrimmedName ==
    /\ ValidatedOnTrimmed
    /\ \A j \in DOMAIN trace :
          (/\ trace[j].op = "rename"
           /\ ~HasSeparator(files[trace[j].idx + 1].new_name)
           /\ files[trace[j].idx + 1].new_name # Dot)
              => (/\ trace[j].to.comps # <<>>
                  /\ LastOf(trace[j].to) = files[trace[j].idx + 1].new_name)

C10_Witness ==
    \E j \in DOMAIN trace :
        /\ trace[j].op = "rename"
        /\ trace[j].err = ""
        /\ files[trace[j].idx + 1].new_name = <<" ", "c">>
        /\ Exists(fs, <<D, <<" ", "c">>>>)

------------------------------------------------------------------------------
(* Vocabulary of the listing properties; a listing is judged against fs0,   *)
(* the filesystem it was called on.                                         *)

ListedDir == WalkDir(fs0, <<>>, lpath.comps)

\* The names of the immediate children of the listed directory that are
\* regular files
RegularChildren ==
    {n \in Children(fs0, ListedDir.loc) : fs0[Append(ListedDir.loc, n)].kind = "file"}

EntrySet(ents) == {ents[i] : i \in DOMAIN ents}

\* One entry for each regular file of the directory, none for anything else
\* and none twice; the path is the directory's path joined with the base name
ExactlyTheRegularFiles(ents) ==
    /\ ListedDir.err = ""
    /\ Len(ents) = Cardinality(RegularChildren)
    /\ {e.path : e \in EntrySet(ents)} = {EntryPath(lpath, n) : n \in RegularChildren}
    /\ \A e \in EntrySet(ents) : e.new_name = None

IsValidUtf8(s) == \A i \in DOMAIN s : s[i] # "xFF"

(* C7 as claimed: a successful listing holds exactly one entry per regular  *)
(* file child and none for a subdirectory, symlink or special file; each    *)
(* entry's name is the child's base name, its path the directory path       *)
(* joined with that name, its new name unset.                               *)
C7_Original ==
    (pc = "ldone" /\ lresult.ok) =>
        /\ ExactlyTheRegularFiles(lresult.entries)
        /\ \A e \in EntrySet(lresult.entries) : e.name = LastOf(e.path)

(* C7 amended: the same, except that an entry's name is the base name with  *)
(* every byte that is not valid UTF-8 replaced by U+FFFD; it is the base    *)
(* name itself when that is valid UTF-8.                                    *)
C7_ListingCompleteness ==
    (pc = "ldone" /\ lresult.ok) =>
        /\ ExactlyTheRegularFiles(lresult.entries)
        /\ \A e \in EntrySet(lresult.entries) :
              /\ IsValidUtf8(LastOf(e.path)) => e.name = LastOf(e.path)
              /\ Len(e.name) = Len(LastOf(e.path))
              /\ \A i \in DOMAIN e.name :
                    e.name[i] = IF LastOf(e.path)[i] = "xFF" THEN "uFFFD"
                                ELSE LastOf(e.path)[i]

C7_Witness ==
    /\ pc = "ldone"
    /\ lresult.ok
    /\ lpath = AbsPath(<<D>>)
    /\ Len(lresult.entries) = 4
    /\ \E n \in Children(fs0, <<D>>) : fs0[<<D, n>>].kind = "dir"
    /\ \E n \in Children(fs0, <<D>>) : fs0[<<D, n>>].kind = "symlink"
    /\ \E n \in Children(fs0, <<D>>) : fs0[<<D, n>>].kind = "fifo"

(* C8: when read_dir, the read of an entry, of its file type, of a regular  *)
(* file's metadata or of its modification time fails, the listing returns   *)
(* an error and no entry, whatever was read before; a path that does not    *)
(* exist is such a failure.                                                 *)
C8_AllOrNothing ==
    pc = "ldone" =>
        /\ lfault # "" => (~lresult.ok /\ lresult.entries = <<>> /\ lresult.err # "")
        /\ ~PathExists(fs0, lpath) => (~lresult.ok /\ lresult.entries = <<>>)
        /\ lresult.ok => lfault = ""

C8_Witness ==
    /\ pc = "ldone"
    /\ lfault = "modified"
    /\ lpath = AbsPath(<<D>>)
    /\ Cardinality(RegularChildren) = 4
    /\ \A n \in pending : n \notin RegularChildren

(* C9: a listing leaves the filesystem as it was, and two successive        *)
(* successful listings of a directory that holds the same children return   *)
(* the same set of entries, in whatever order read_dir yielded them.        *)
C9_ReadOnlyIdempotent ==
    /\ pc = "listing" => fs = fs0
    /\ (/\ pc = "ldone"
        /\ lresult.ok
        /\ prev.ok
        /\ prev.path = lpath
        /\ prev.view = DirView(fs0, lpath))
            => EntrySet(lresult.entries) = EntrySet(prev.entries)

C9_Witness ==
    /\ pc = "ldone"
    /\ lresult.ok
    /\ prev.ok
    /\ prev.path = lpath
    /\ prev.view = DirView(fs0, lpath)
    /\ Len(lresult.entries) = 4
    /\ lresult.entries # prev.entries

====
